---- MODULE Spec2Model ----
(***************************************************************************)
(* The arity-polymorphic handler invocation of the occult crate.           *)
(*                                                                         *)
(* src/src/function_impl.rs implements Handler::invoke for every callable  *)
(* of 0 to 12 parameters, each parameter an Extractor over the input value *)
(* type T and the state type State.  The model instantiates T with the     *)
(* byte envelope Frame and the parameters with the two extractors of the   *)
(* repository: Topic (tests/example/main.rs) and State (extractors.rs).    *)
(* A future is a record; each step of the async block is one action.       *)
(***************************************************************************)
EXTENDS Integers, Sequences, FiniteSets, TLC

\* ------------------------------------------------------------------------
\* Program constant and bounds of the model
\* ------------------------------------------------------------------------

\* The widest instantiation: define_handler_for_tuple! { A B C D E F G H I J K L }
MaxArity == 12

\* At most this many Topic parameters in a row in a handler's parameter list.
MaxFallible == 3

\* At most this many invocations of the handler by the caller.
MaxInvocations == 2

\* At most this many parameters in the handlers that are invoked on several
\* inputs or concurrently.
MaxSmallArity == 2

\* At most this many times the handler body returns Poll::Pending.
MaxSuspensions == 1

\* ------------------------------------------------------------------------
\* Values: Result, Frame, String, Vec<u8>
\* ------------------------------------------------------------------------

Ok(v) == [tag |-> "Ok", val |-> v]

Err(e) == [tag |-> "Err", err |-> e]

\* No result yet: the future has not completed.
Pending == [tag |-> "Pending"]

\* struct Frame(Vec<u8>)
Frame(bytes) == [bytes |-> bytes]

\* A String, as its sequence of code points.
Str(chars) == [chars |-> chars]

\* The byte strings a caller sends: empty, "w", one that is not UTF-8 from
\* index 0 and one that is not UTF-8 from index 1.
ByteSeqs == {<<>>, <<119>>, <<255>>, <<119, 255>>}

IsAscii(bytes) == \A i \in 1..Len(bytes) : bytes[i] < 128

\* What a caller passes to invoke: anything that is Into<Frame>.
RawInputs ==
    {[kind |-> "Frame", frame |-> Frame(b)] : b \in ByteSeqs}
      \cup {[kind |-> "Vec", vec |-> b] : b \in ByteSeqs}
      \cup {[kind |-> "String", string |-> Str(b)] : b \in {c \in ByteSeqs : IsAscii(c)}}

\* String::into_bytes: the UTF-8 encoding of the code points (one byte each
\* below 128, two bytes below 2048).
RECURSIVE IntoBytes(_)
IntoBytes(chars) ==
    IF chars = <<>> THEN <<>>
    ELSE LET c == Head(chars)
         IN  (IF c < 128 THEN <<c>>
              ELSE <<192 + (c \div 64), 128 + (c % 64)>>) \o IntoBytes(Tail(chars))

\* impl From<Vec<u8>> for Frame, impl From<String> for Frame, and the
\* reflexive impl From<Frame> for Frame.
IntoFrame(raw) ==
    CASE raw.kind = "Frame" -> raw.frame
      [] raw.kind = "Vec" -> Frame(raw.vec)
      [] raw.kind = "String" -> Frame(IntoBytes(raw.string.chars))

\* String::from_utf8 on the byte alphabet of the model: a byte below 128 is
\* one code point, the first byte from 128 up is where decoding stops.
FromUtf8(bytes) ==
    LET bad == {i \in 1..Len(bytes) : bytes[i] >= 128}
    IN  IF bad = {}
        THEN Ok(Str(bytes))
        ELSE Err([utf8_error |-> "invalid utf-8 sequence",
                  valid_up_to |-> (CHOOSE i \in bad : \A j \in bad : i <= j) - 1])

\* FromUtf8Error::to_string
Utf8ErrorToString(e) == Str(<<e.utf8_error, "of 1 bytes from index", e.valid_up_to>>)

\* Into<Box<dyn std::error::Error>> for an extractor's error.
BoxError(e) == [boxed |-> e]

\* ------------------------------------------------------------------------
\* Contexts and extractors
\* ------------------------------------------------------------------------

\* The state values a caller passes: ArbitraryState, told apart by what
\* how_arbitrary returns ("v", "s").
Contexts == {[how_arbitrary |-> Str(<<118>>)], [how_arbitrary |-> Str(<<115>>)]}

\* The extractable parameter types.
ParamTypes == {"Topic", "State"}

\* impl<State> Extractor<Frame, State> for Topic
TopicExtract(topic, context) ==
    LET r == FromUtf8(topic.bytes)
    IN  IF r.tag = "Ok"
        THEN Ok([type |-> "Topic", string |-> r.val])
        ELSE Err(Utf8ErrorToString(r.err))

\* StateExtract looking into the input: it rejects what is not UTF-8.
StateExtract_Parsing(topic, context) ==
    LET r == FromUtf8(topic.bytes)
    IN  IF r.tag = "Ok"
        THEN Ok([type |-> "State", state |-> context])
        ELSE Err(Utf8ErrorToString(r.err))

\* impl<T, GivenState> Extractor<T, GivenState> for State<GivenState>
StateExtract(topic, context) == Ok([type |-> "State", state |-> context])

\* $param::extract(input.clone(), context)
Extract(type, topic, context) ==
    IF type = "Topic" THEN TopicExtract(topic, context)
    ELSE StateExtract(topic, context)

\* ------------------------------------------------------------------------
\* Handlers: a parameter list and a body
\* ------------------------------------------------------------------------

\* n parameters of one type.
Block(n, type) == [i \in 1..n |-> type]

\* The parameter lists of the thirteen instantiations, () to (A, ..., L):
\* State parameters, then Topic parameters, then State parameters.
Signatures ==
    {Block(a, "State") \o Block(b, "Topic") \o Block(c, "State") :
        <<a, b, c>> \in {t \in (0..MaxArity) \X (0..MaxFallible) \X (0..MaxArity) :
                            t[1] + t[2] + t[3] <= MaxArity}}

\* "greet" returns a String; "checked" returns a Result of its own.
Bodies == {"greet", "checked"}

Handlers == {[params |-> s, body |-> b] : s \in Signatures, b \in Bodies}

\* How a parameter is written by format!: a Topic displays its string, a
\* State its how_arbitrary().
Display(p) ==
    IF p.type = "Topic" THEN p.string.chars ELSE p.state.how_arbitrary.chars

RECURSIVE Join(_)
Join(args) ==
    IF args = <<>> THEN <<>>
    ELSE IF Len(args) = 1 THEN Display(args[1])
    ELSE Display(args[1]) \o <<32>> \o Join(Tail(args))

\* Greeting formatting its parameters with {:?}: each in double quotes.
Greeting_Debug(args) ==
    Str(<<72, 101, 108, 108, 111, 44, 32, 34>> \o Join(args) \o <<34, 33>>)

\* format!("Hello, {topic} {topic2} {topic3}!")
Greeting(args) == Str(<<72, 101, 108, 108, 111, 44, 32>> \o Join(args) \o <<33>>)

\* The output the handler body completes with.  A "checked" body reports a
\* parameter that displays as nothing through its own Result.
Body(body, args) ==
    IF body = "greet" THEN [type |-> "String", string |-> Greeting(args)]
    ELSE IF \E i \in 1..Len(args) : Display(args[i]) = <<>>
         THEN [type |-> "Result", result |-> Err(Str(<<101, 109, 112, 116, 121>>))]
         ELSE [type |-> "Result", result |-> Ok(Greeting(args))]

\* handle_the_handler / tersely_handle_the_handler: the generic wrappers of
\* narrowing_types invoke the handler they are given and convert an Ok
\* result into the Frame; an Err passes through.
HandleTheHandler(result) ==
    IF result.tag = "Ok"
    THEN Ok(IntoFrame([kind |-> "Frame", frame |-> result.val]))
    ELSE result

\* Output: Into<T>.  A String becomes the Frame of its bytes; the Result of a
\* "checked" body becomes the Frame of whichever String it holds.
OutputInto(output) ==
    IF output.type = "String" THEN Frame(IntoBytes(output.string.chars))
    ELSE IF output.result.tag = "Ok" THEN Frame(IntoBytes(output.result.val.chars))
    ELSE Frame(IntoBytes(output.result.err.chars))

\* No output yet: the handler body has not completed.
NoOutput == [type |-> "None"]

\* ------------------------------------------------------------------------
\* State
\* ------------------------------------------------------------------------

VARIABLES
    handler,    \* the caller's handler: a parameter list and a body
    request,    \* what the caller passes as input to invoke
    context,    \* what the caller passes as state to invoke
    futures     \* the future of each invocation, by invocation number

vars == <<handler, request, context, futures>>

Invocations == 1..MaxInvocations

\* Before invoke is called there is no future.
NoFuture == [pc |-> "none"]

\* CloneInput as a move: the extractor gets the value and nothing stays behind.
CloneInput_Take(input) == [copy |-> input, kept |-> Frame(<<>>)]

\* input.clone(): the copy handed to the extractor and the value that stays
\* behind in the async block.
CloneInput(input) == [copy |-> input, kept |-> input]

\* NewFuture taking a Frame as it is and everything else as the default
\* Frame, in place of input.into().
NewFuture_FrameOnly(h, raw, state) ==
    [pc |-> "created",
     handler |-> h,
     raw |-> raw,
     input |-> IF raw.kind = "Frame" THEN raw.frame ELSE Frame(<<>>),
     state |-> state,
     polls |-> 0,
     args |-> <<>>,
     output |-> NoOutput,
     result |-> Pending,
     log |-> <<>>]

\* invoke, lines 24-31: the handler is cloned and the input converted; the
\* async block they move into has not run yet (no poll so far).  raw keeps
\* what the caller passed.
NewFuture(h, raw, state) ==
    [pc |-> "created",
     handler |-> h,
     raw |-> raw,
     input |-> IntoFrame(raw),
     state |-> state,
     polls |-> 0,
     args |-> <<>>,
     output |-> NoOutput,
     result |-> Pending,
     log |-> <<>>]

\* The event the log keeps of one call of an extractor.
ExtractEvent(i, topic, state, r) ==
    [op |-> "extract", param |-> i, topic |-> topic, context |-> state,
     ok |-> r.tag = "Ok"]

\* ExtractParam with the return of line 36 lost: the rejection is dropped, a
\* default Topic is bound and extraction goes on.
ExtractParam_NoReturn(f) ==
    LET i == Len(f.args) + 1
        c == CloneInput(f.input)
        r == Extract(f.handler.params[i], c.copy, f.state)
        v == IF r.tag = "Ok" THEN r.val ELSE [type |-> "Topic", string |-> Str(<<>>)]
    IN  [f EXCEPT !.input = c.kept,
                  !.args = Append(@, v),
                  !.log = Append(@, ExtractEvent(i, c.copy, f.state, r))]

\* ExtractParam with the parameters taken right to left.
ExtractParam_Reversed(f) ==
    LET i == Len(f.handler.params) - Len(f.args)
        c == CloneInput(f.input)
        r == Extract(f.handler.params[i], c.copy, f.state)
    IN  IF r.tag = "Ok"
        THEN [f EXCEPT !.input = c.kept,
                       !.args = <<r.val>> \o @,
                       !.log = Append(@, ExtractEvent(i, c.copy, f.state, r))]
        ELSE [f EXCEPT !.input = c.kept,
                       !.result = Err(BoxError(r.err)),
                       !.pc = "done",
                       !.log = Append(@, ExtractEvent(i, c.copy, f.state, r))]

\* ExtractParam answering a rejection with the input itself instead of Err.
ExtractParam_EchoOnReject(f) ==
    LET i == Len(f.args) + 1
        c == CloneInput(f.input)
        r == Extract(f.handler.params[i], c.copy, f.state)
    IN  IF r.tag = "Ok"
        THEN [f EXCEPT !.input = c.kept,
                       !.args = Append(@, r.val),
                       !.log = Append(@, ExtractEvent(i, c.copy, f.state, r))]
        ELSE [f EXCEPT !.input = c.kept,
                       !.result = Ok(c.kept),
                       !.pc = "done",
                       !.log = Append(@, ExtractEvent(i, c.copy, f.state, r))]

\* ExtractParam trying a rejected parameter again instead of returning.
ExtractParam_Retry(f) ==
    LET i == Len(f.args) + 1
        c == CloneInput(f.input)
        r == Extract(f.handler.params[i], c.copy, f.state)
    IN  IF r.tag = "Ok"
        THEN [f EXCEPT !.input = c.kept,
                       !.args = Append(@, r.val),
                       !.log = Append(@, ExtractEvent(i, c.copy, f.state, r))]
        ELSE [f EXCEPT !.input = c.kept,
                       !.log = Append(@, ExtractEvent(i, c.copy, f.state, r))]

\* ExtractParam with the state moved into the extractor instead of borrowed:
\* a default state is left behind.
ExtractParam_TakeState(f) ==
    LET i == Len(f.args) + 1
        c == CloneInput(f.input)
        r == Extract(f.handler.params[i], c.copy, f.state)
        left == [how_arbitrary |-> Str(<<>>)]
    IN  IF r.tag = "Ok"
        THEN [f EXCEPT !.input = c.kept,
                       !.state = left,
                       !.args = Append(@, r.val),
                       !.log = Append(@, ExtractEvent(i, c.copy, f.state, r))]
        ELSE [f EXCEPT !.input = c.kept,
                       !.state = left,
                       !.result = Err(BoxError(r.err)),
                       !.pc = "done",
                       !.log = Append(@, ExtractEvent(i, c.copy, f.state, r))]

\* Lines 33-38 for one parameter: extract it from a clone of the input; bind
\* the value on Ok, return the converted rejection on Err.
ExtractParam(f) ==
    LET i == Len(f.args) + 1
        c == CloneInput(f.input)
        r == Extract(f.handler.params[i], c.copy, f.state)
        e == ExtractEvent(i, c.copy, f.state, r)
    IN  IF r.tag = "Ok"
        THEN [f EXCEPT !.input = c.kept,
                       !.args = Append(@, r.val),
                       !.log = Append(@, e)]
        ELSE [f EXCEPT !.input = c.kept,
                       !.result = Err(BoxError(r.err)),
                       !.pc = "done",
                       !.log = Append(@, e)]

\* CallBody passing the state along as one more, last argument.
CallBody_WithState(f) ==
    LET args == Append(f.args, [type |-> "State", state |-> f.state])
    IN  [f EXCEPT !.pc = "awaiting",
                  !.args = args,
                  !.log = Append(@, [op |-> "call", args |-> args])]

\* Line 40, the call: handler($($param,)*) makes the body's future.
CallBody(f) ==
    [f EXCEPT !.pc = "awaiting",
              !.log = Append(@, [op |-> "call", args |-> f.args])]

\* Line 40, .await: the body's future completes with its output.
CompleteBody(f) ==
    LET o == Body(f.handler.body, f.args)
    IN  [f EXCEPT !.pc = "completed",
                  !.output = o,
                  !.log = Append(@, [op |-> "complete", output |-> o])]

\* Respond treating the body's own Err as the invocation's error, as
\* response? would.
Respond_Try(f) ==
    [f EXCEPT !.pc = "done",
              !.result = IF f.output.type = "Result" /\ f.output.result.tag = "Err"
                         THEN Err(BoxError(f.output.result.err))
                         ELSE Ok(OutputInto(f.output)),
              !.log = Append(@, [op |-> "convert", output |-> f.output])]

\* Respond answering with the input instead of the converted response.
Respond_EchoInput(f) ==
    [f EXCEPT !.pc = "done",
              !.result = Ok(f.input),
              !.log = Append(@, [op |-> "convert", output |-> f.output])]

\* Line 42: Ok(response.into())
\* Respond leaving the invocation as it is: the poll after the body has
\* completed returns Poll::Pending again.
Respond_Pending(f) == f

Respond(f) ==
    [f EXCEPT !.pc = "done",
              !.result = Ok(OutputInto(f.output)),
              !.log = Append(@, [op |-> "convert", output |-> f.output])]

\* ------------------------------------------------------------------------
\* Actions
\* ------------------------------------------------------------------------

Init ==
    /\ handler \in Handlers
    /\ request \in RawInputs
    /\ context \in Contexts
    /\ futures = [id \in Invocations |-> NoFuture]

\* Invoke draining the caller's input on the first invocation: the later
\* ones see an empty one.
Invoke_Drained(id) ==
    /\ futures[id].pc = "none"
    /\ \A earlier \in 1..(id - 1) : futures[earlier].pc = "done"
    /\ futures' = [futures EXCEPT ![id] =
            NewFuture(handler, IF id = 1 THEN request ELSE [kind |-> "Vec", vec |-> <<>>],
                      context)]
    /\ UNCHANGED <<handler, request, context>>

\* The caller invokes its handler, one invocation after the other as in
\* handler.invoke(..).await?; handler.invoke(..).await?
Invoke(id) ==
    /\ futures[id].pc = "none"
    /\ \A earlier \in 1..(id - 1) : futures[earlier].pc = "done"
    /\ futures' = [futures EXCEPT ![id] = NewFuture(handler, request, context)]
    /\ UNCHANGED <<handler, request, context>>

\* The first poll enters the async block (lines 28-31).
Start(id) ==
    /\ futures[id].pc = "created"
    /\ futures' = [futures EXCEPT ![id].pc = "extracting", ![id].polls = 1]
    /\ UNCHANGED <<handler, request, context>>

\* The next parameter of lines 33-38.
\* ExtractNext on an input shared by the invocations in flight: the
\* extractor is handed the input of the invocation created last.
ExtractNext_SharedInput(id) ==
    /\ futures[id].pc = "extracting"
    /\ Len(futures[id].args) < Len(futures[id].handler.params)
    /\ LET last == CHOOSE k \in Invocations :
                       /\ futures[k].pc # "none"
                       /\ \A j \in Invocations : futures[j].pc # "none" => j <= k
       IN  futures' = [futures EXCEPT
                           ![id] = ExtractParam([@ EXCEPT !.input = futures[last].input])]
    /\ UNCHANGED <<handler, request, context>>

ExtractNext(id) ==
    /\ futures[id].pc = "extracting"
    /\ Len(futures[id].args) < Len(futures[id].handler.params)
    /\ futures' = [futures EXCEPT ![id] = ExtractParam(@)]
    /\ UNCHANGED <<handler, request, context>>

\* CallHandler without waiting for the last parameter.
CallHandler_Early(id) ==
    /\ futures[id].pc = "extracting"
    /\ futures' = [futures EXCEPT ![id] = CallBody(@)]
    /\ UNCHANGED <<handler, request, context>>

\* All parameters are bound: line 40 calls the handler.
CallHandler(id) ==
    /\ futures[id].pc = "extracting"
    /\ Len(futures[id].args) = Len(futures[id].handler.params)
    /\ futures' = [futures EXCEPT ![id] = CallBody(@)]
    /\ UNCHANGED <<handler, request, context>>

\* The body's future is ready.
HandlerComplete(id) ==
    /\ futures[id].pc = "awaiting"
    /\ futures' = [futures EXCEPT ![id] = CompleteBody(@)]
    /\ UNCHANGED <<handler, request, context>>

\* The async block returns Ok(response.into()).
Return(id) ==
    /\ futures[id].pc = "completed"
    /\ futures' = [futures EXCEPT ![id] = Respond(@)]
    /\ UNCHANGED <<handler, request, context>>

Next ==
    \E id \in Invocations :
        \/ Invoke(id)
        \/ Start(id)
        \/ ExtractNext(id)
        \/ CallHandler(id)
        \/ HandlerComplete(id)
        \/ Return(id)

Spec == Init /\ [][Next]_vars

\* ------------------------------------------------------------------------
\* One handler, invoked again and again on different inputs and states
\* ------------------------------------------------------------------------

\* The handlers of at most MaxSmallArity parameters.
SmallHandlers == {h \in Handlers : Len(h.params) <= MaxSmallArity}

\* "world"
World == <<119, 111, 114, 108, 100>>

\* What the caller passes to its invocations: "world" as a String and as
\* the Frame it converts into (coerced_types), bytes that are not UTF-8,
\* and the empty Frame.
Calls ==
    {[raw |-> [kind |-> "String", string |-> Str(World)],
      state |-> [how_arbitrary |-> Str(<<118>>)]],
     [raw |-> [kind |-> "Frame", frame |-> Frame(World)],
      state |-> [how_arbitrary |-> Str(<<118>>)]],
     [raw |-> [kind |-> "Vec", vec |-> <<119, 255>>],
      state |-> [how_arbitrary |-> Str(<<115>>)]],
     [raw |-> [kind |-> "Frame", frame |-> Frame(<<>>)],
      state |-> [how_arbitrary |-> Str(<<115>>)]]}

InitReuse ==
    /\ handler \in SmallHandlers
    /\ \E c \in Calls : request = c.raw /\ context = c.state
    /\ futures = [id \in Invocations |-> NoFuture]

\* InvokeAgain with the handler moved into the first invocation: what is
\* left for the later ones has no parameters.
InvokeAgain_Moved(id) ==
    /\ id > 1
    /\ futures[id].pc = "none"
    /\ \A earlier \in 1..(id - 1) : futures[earlier].pc = "done"
    /\ \E c \in Calls :
           futures' = [futures EXCEPT ![id] =
               NewFuture([handler EXCEPT !.params = <<>>], c.raw, c.state)]
    /\ UNCHANGED <<handler, request, context>>

\* After the first invocation has returned the caller invokes the same
\* handler on any input and state.
InvokeAgain(id) ==
    /\ id > 1
    /\ futures[id].pc = "none"
    /\ \A earlier \in 1..(id - 1) : futures[earlier].pc = "done"
    /\ \E c \in Calls :
           futures' = [futures EXCEPT ![id] = NewFuture(handler, c.raw, c.state)]
    /\ UNCHANGED <<handler, request, context>>

NextReuse ==
    \E id \in Invocations :
        \/ Invoke(id)
        \/ InvokeAgain(id)
        \/ Start(id)
        \/ ExtractNext(id)
        \/ CallHandler(id)
        \/ HandlerComplete(id)
        \/ Return(id)

SpecReuse == InitReuse /\ [][NextReuse]_vars

\* ------------------------------------------------------------------------
\* Concurrent invocations, polled, suspended and dropped by an executor
\* ------------------------------------------------------------------------

\* The handlers of the concurrent invocations.
AsyncHandlers == {h \in SmallHandlers : h.body = "greet"}

\* The independent (value, context) pairs of the concurrent invocations.
IndependentPairs ==
    {[raw |-> [kind |-> "String", string |-> Str(<<119>>)],
      state |-> [how_arbitrary |-> Str(<<118>>)]],
     [raw |-> [kind |-> "Vec", vec |-> <<119, 255>>],
      state |-> [how_arbitrary |-> Str(<<115>>)]]}

InitAsync ==
    /\ handler \in AsyncHandlers
    /\ request = [kind |-> "String", string |-> Str(<<119>>)]
    /\ context = [how_arbitrary |-> Str(<<118>>)]
    /\ futures = [id \in Invocations |-> NoFuture]

\* invoke is called while earlier invocations may still be running.
\* Spawn extracting the first parameter while the future is built.
Spawn_Eager(id) ==
    /\ futures[id].pc = "none"
    /\ \A earlier \in 1..(id - 1) : futures[earlier].pc # "none"
    /\ \E c \in IndependentPairs :
           LET f == NewFuture(handler, c.raw, c.state)
           IN  futures' = [futures EXCEPT
                               ![id] = IF Len(handler.params) > 0
                                       THEN ExtractParam(f) ELSE f]
    /\ UNCHANGED <<handler, request, context>>

Spawn(id) ==
    /\ futures[id].pc = "none"
    /\ \A earlier \in 1..(id - 1) : futures[earlier].pc # "none"
    /\ \E c \in IndependentPairs :
           futures' = [futures EXCEPT ![id] = NewFuture(handler, c.raw, c.state)]
    /\ UNCHANGED <<handler, request, context>>

\* Line 40, .await: the body's future is not ready, the poll of the
\* invocation returns Poll::Pending.
\* Suspend with a yield between two extractions as well.
Suspend_Anywhere(id) ==
    /\ futures[id].pc \in {"extracting", "awaiting"}
    /\ futures[id].polls <= MaxSuspensions
    /\ futures' = [futures EXCEPT ![id].pc = "suspended",
                                   ![id].log = Append(@, [op |-> "pending"])]
    /\ UNCHANGED <<handler, request, context>>

Suspend(id) ==
    /\ futures[id].pc = "awaiting"
    /\ futures[id].polls <= MaxSuspensions
    /\ futures' = [futures EXCEPT ![id].pc = "suspended",
                                   ![id].log = Append(@, [op |-> "pending"])]
    /\ UNCHANGED <<handler, request, context>>

\* The executor polls the suspended invocation again: the async block goes
\* on at the .await of line 40.
\* Resume of a future that may have been dropped.
Resume_Any(id) ==
    /\ futures[id].pc \in {"suspended", "dropped"}
    /\ futures[id].polls <= MaxSuspensions + 1
    /\ futures' = [futures EXCEPT ![id].pc = "awaiting", ![id].polls = @ + 1]
    /\ UNCHANGED <<handler, request, context>>

Resume(id) ==
    /\ futures[id].pc = "suspended"
    /\ futures' = [futures EXCEPT ![id].pc = "awaiting", ![id].polls = @ + 1]
    /\ UNCHANGED <<handler, request, context>>

\* The future is dropped between two polls, or before the first.
Drop(id) ==
    /\ futures[id].pc \in {"created", "suspended"}
    /\ futures' = [futures EXCEPT ![id].pc = "dropped"]
    /\ UNCHANGED <<handler, request, context>>

\* The steps of the invocation that polling it takes.
Progress(id) ==
    \/ Start(id)
    \/ ExtractNext(id)
    \/ CallHandler(id)
    \/ Resume(id)
    \/ HandlerComplete(id)
    \/ Return(id)

NextAsync ==
    \E id \in Invocations :
        \/ Spawn(id)
        \/ Start(id)
        \/ ExtractNext(id)
        \/ CallHandler(id)
        \/ Suspend(id)
        \/ Resume(id)
        \/ HandlerComplete(id)
        \/ Return(id)
        \/ Drop(id)

SpecAsync == InitAsync /\ [][NextAsync]_vars

\* The executor keeps polling every invocation it has not dropped.
SpecAsyncFair == SpecAsync /\ \A id \in Invocations : WF_vars(Progress(id))

\* ------------------------------------------------------------------------
\* What the properties speak about
\* ------------------------------------------------------------------------

\* The invocations made so far.
Invoked == {id \in Invocations : futures[id].pc # "none"}

\* The invocations that have returned.
Returned == {id \in Invocations : futures[id].pc = "done"}

ParamsOf(id) == futures[id].handler.params

LogOf(id) == futures[id].log

\* The positions of the log of the given operation.
Events(id, op) == {p \in DOMAIN LogOf(id) : LogOf(id)[p].op = op}

\* The positions of the log at which an extractor failed.
Rejections(id) == {p \in Events(id, "extract") : ~LogOf(id)[p].ok}

\* The canonical input value of the caller's invocations.
Canonical == IntoFrame(request)

\* What the extractor of the i-th declared parameter makes of the caller's
\* input and state, whether or not the invocation gets to it.
Extraction(i) == Extract(handler.params[i], Canonical, context)

\* The declared parameters whose extractor fails on the caller's input.
Failing == {i \in DOMAIN handler.params : Extraction(i).tag = "Err"}

\* The least of a set of parameter positions.
Least(S) == CHOOSE k \in S : \A j \in S : k <= j

FirstFailing == LET failing == Failing IN Least(failing)

\* The parameter tuple of a call in which no extractor fails.
Extracted == [i \in DOMAIN handler.params |-> Extraction(i).val]

\* ------------------------------------------------------------------------
\* C1  Short-circuit
\* ------------------------------------------------------------------------

\* C1: in every invocation, once the extractor of the k-th declared parameter
\* has failed, no extractor of a parameter after k is invoked: the failed
\* extraction is the last event of the invocation and every extraction in
\* its log is of a parameter up to k.
ShortCircuit ==
    \A id \in Invoked :
        LET log == LogOf(id)
        IN  \A p \in DOMAIN log :
                (log[p].op = "extract" /\ ~log[p].ok) =>
                    /\ p = Len(log)
                    /\ \A q \in DOMAIN log :
                           log[q].op = "extract" => log[q].param <= log[p].param

\* An invocation has returned after the extractor of a parameter k failed,
\* with parameters before k extracted and parameters of both types after k.
ShortCircuitWitness ==
    \E id \in Returned :
        \E p \in Rejections(id) :
            LET k == LogOf(id)[p].param
            IN  /\ k > 1
                /\ \A q \in 1..(p - 1) : LogOf(id)[q].ok
                /\ \E j \in (k + 1)..Len(ParamsOf(id)) : ParamsOf(id)[j] = "Topic"
                /\ \E j \in (k + 1)..Len(ParamsOf(id)) : ParamsOf(id)[j] = "State"

\* ------------------------------------------------------------------------
\* C2  The body runs only after every extraction succeeded
\* ------------------------------------------------------------------------

\* C2: the handler body is called only after the extractor of every declared
\* parameter has succeeded, and in an invocation in which an extractor has
\* failed the body is neither called nor completed.
BodyAfterAllExtractions ==
    \A id \in Invoked :
        LET log == LogOf(id)
            rejected == \E p \in DOMAIN log : log[p].op = "extract" /\ ~log[p].ok
        IN  /\ \A p \in DOMAIN log :
                   log[p].op = "call" =>
                       /\ {log[q].param : q \in {r \in 1..(p - 1) :
                               log[r].op = "extract" /\ log[r].ok}}
                             = DOMAIN ParamsOf(id)
                       /\ Len(log[p].args) = Len(ParamsOf(id))
                       /\ ~rejected
            /\ rejected =>
                   /\ \A p \in DOMAIN log : log[p].op \notin {"call", "complete"}
                   /\ futures[id].output = NoOutput

\* The body of a handler of a State and a Topic parameter or more has been
\* called.
BodyAfterAllExtractionsWitness ==
    \E id \in Invoked :
        /\ Events(id, "call") # {}
        /\ \E i \in DOMAIN ParamsOf(id) : ParamsOf(id)[i] = "Topic"
        /\ \E i \in DOMAIN ParamsOf(id) : ParamsOf(id)[i] = "State"

\* ------------------------------------------------------------------------
\* C3  Extraction in declared order
\* ------------------------------------------------------------------------

\* C3: within an invocation the extractors run one after another in the
\* declared order: the p-th event of the log is the extraction of the p-th
\* parameter, and the extraction of a parameter j > 1 comes right after the
\* finished, successful extraction of parameter j - 1; so for i < j the
\* extraction of parameter i has finished before that of parameter j starts.
DeclaredOrder ==
    \A id \in Invoked :
        LET log == LogOf(id)
            extractions == {p \in DOMAIN log : log[p].op = "extract"}
        IN  /\ \A p \in extractions : log[p].param = p
            /\ \A q \in extractions :
                   log[q].param > 1 =>
                       /\ (q - 1) \in extractions
                       /\ log[q - 1].param = log[q].param - 1
                       /\ log[q - 1].ok

\* All twelve parameters of a handler of the widest arity have been
\* extracted.
DeclaredOrderWitness ==
    \E id \in Invoked :
        /\ Len(ParamsOf(id)) = MaxArity
        /\ Cardinality(Events(id, "extract")) = MaxArity
        /\ \E i \in DOMAIN ParamsOf(id) : ParamsOf(id)[i] = "Topic"

\* ------------------------------------------------------------------------
\* C4  The error of the first failing extractor
\* ------------------------------------------------------------------------

\* C4: when the extractor of some declared parameter fails on the input, the
\* invocation returns Err of the error of the first such parameter in
\* declared order, boxed into the unified error type; that extractor's is
\* the only rejection of the invocation and no handler output exists.
FirstErrorReturned ==
    LET failing == Failing
    IN  failing # {} =>
            LET k == Least(failing)
                error == Err(BoxError(Extraction(k).err))
            IN  \A id \in Returned :
                    /\ futures[id].result = error
                    /\ {LogOf(id)[p].param : p \in Rejections(id)} = {k}
                    /\ futures[id].output = NoOutput
                    /\ Events(id, "convert") = {}

\* An invocation has returned Err where two Topic parameters follow a State
\* parameter and the input is not UTF-8 from index 1 on.
FirstErrorReturnedWitness ==
    \E id \in Returned :
        /\ futures[id].result.tag = "Err"
        /\ Cardinality(Failing) >= 2
        /\ FirstFailing > 1
        /\ futures[id].result.err.boxed.chars[3] = 1

\* ------------------------------------------------------------------------
\* C5  What an Err of invoke can carry
\* ------------------------------------------------------------------------

\* The body's output is an Err of the body's own result type.
BodySignalledError(id) ==
    /\ futures[id].output.type = "Result"
    /\ futures[id].output.result.tag = "Err"

\* C5 as claimed: an error the handler body signals through its own result
\* type ends the invocation in Err carrying that error.
BodyErrorSurfacesAsErr ==
    \A id \in Returned :
        BodySignalledError(id) =>
            futures[id].result = Err(BoxError(futures[id].output.result.err))

\* C5 as amended: an invocation ends in Err only with the error of a failed
\* extraction (and then the body was never called); whatever the body
\* completes with, an error of its own result type included, is converted
\* into the input value type and returned in Ok.
OnlyExtractionErrors ==
    \A id \in Returned :
        /\ futures[id].result.tag \in {"Ok", "Err"}
        /\ futures[id].result.tag = "Err" =>
               /\ Rejections(id) # {}
               /\ Events(id, "call") = {}
               /\ \E i \in DOMAIN handler.params :
                      /\ Extraction(i).tag = "Err"
                      /\ futures[id].result.err = BoxError(Extraction(i).err)
        /\ futures[id].output # NoOutput =>
               futures[id].result = Ok(OutputInto(futures[id].output))

\* An invocation whose body signalled an error of its own has returned Ok.
OnlyExtractionErrorsWitness ==
    \E id \in Returned :
        /\ BodySignalledError(id)
        /\ futures[id].result.tag = "Ok"
        /\ Len(ParamsOf(id)) >= 1

\* ------------------------------------------------------------------------
\* C6  The response is the converted output of the body
\* ------------------------------------------------------------------------

\* C6: the response is converted only after the handler body has completed
\* (which is after it was called), and when no extractor fails the
\* invocation returns Ok of the conversion of the output that the body
\* makes of the extracted parameters.
ResponseIsConvertedOutput ==
    /\ \A id \in Invoked :
           LET log == LogOf(id)
           IN  /\ \A p \in DOMAIN log :
                      log[p].op = "convert" =>
                          \E q \in 1..(p - 1) :
                              /\ log[q].op = "complete"
                              /\ log[q].output = log[p].output
                              /\ \E c \in 1..(q - 1) : log[c].op = "call"
               /\ futures[id].result.tag = "Ok" =>
                      \E p \in DOMAIN log : log[p].op = "convert"
    /\ (Returned # {} /\ Failing = {}) =>
           LET response == Ok(OutputInto(Body(handler.body, Extracted)))
           IN  \A id \in Returned : futures[id].result = response

\* An invocation of a handler of a Topic and a State parameter or more has
\* returned Ok of a frame that is neither the input nor empty.
ResponseIsConvertedOutputWitness ==
    \E id \in Returned :
        /\ futures[id].result.tag = "Ok"
        /\ futures[id].result.val # Canonical
        /\ \E i \in DOMAIN ParamsOf(id) : ParamsOf(id)[i] = "Topic"
        /\ \E i \in DOMAIN ParamsOf(id) : ParamsOf(id)[i] = "State"
        /\ Canonical.bytes # <<>>

\* ------------------------------------------------------------------------
\* C7  Each extractor at most once, once each on success
\* ------------------------------------------------------------------------

\* C7: for every arity from 0 to 12, the extractor of each declared
\* parameter is invoked at most once in an invocation, and in an invocation
\* that returns Ok each is invoked exactly once and the body is called and
\* completed exactly once.
ExtractedOnce ==
    \A id \in Invoked :
        LET log == LogOf(id)
            extractions == {p \in DOMAIN log : log[p].op = "extract"}
            extracted == {log[p].param : p \in extractions}
            calls == Cardinality({p \in DOMAIN log : log[p].op = "call"})
        IN  /\ Len(ParamsOf(id)) \in 0..MaxArity
            /\ extracted \subseteq DOMAIN ParamsOf(id)
            \* no parameter is extracted at two positions of the log
            /\ Cardinality(extracted) = Cardinality(extractions)
            /\ calls <= 1
            /\ futures[id].result.tag = "Ok" =>
                   /\ extracted = DOMAIN ParamsOf(id)
                   /\ calls = 1
                   /\ Cardinality({p \in DOMAIN log : log[p].op = "complete"}) = 1

\* An invocation of a handler of the widest arity has returned Ok, and a
\* Topic parameter of it was extracted.
ExtractedOnceWitness ==
    \E id \in Returned :
        /\ futures[id].result.tag = "Ok"
        /\ Len(ParamsOf(id)) = MaxArity
        /\ \E i \in DOMAIN ParamsOf(id) : ParamsOf(id)[i] = "Topic"

\* ------------------------------------------------------------------------
\* C8  Zero-arity identity
\* ------------------------------------------------------------------------

\* What a body without parameters returns: neither the input nor the
\* state is anywhere in it.
ZeroArityOutput(body) == Body(body, <<>>)

\* C8: an invocation of a handler without parameters extracts nothing,
\* calls the callable with no arguments and returns Ok of the conversion
\* of what the body returns, whatever the input and the state are.
ZeroArityIdentity ==
    \A id \in Invoked :
        Len(ParamsOf(id)) = 0 =>
            /\ Events(id, "extract") = {}
            /\ \A p \in Events(id, "call") : p = 1 /\ LogOf(id)[p].args = <<>>
            /\ id \in Returned =>
                   /\ Events(id, "call") = {1}
                   /\ futures[id].result =
                          Ok(OutputInto(ZeroArityOutput(futures[id].handler.body)))

\* An invocation of a handler without parameters has returned, on an input
\* that no Topic could be extracted from.
ZeroArityIdentityWitness ==
    \E id \in Returned :
        /\ Len(ParamsOf(id)) = 0
        /\ futures[id].result.tag = "Ok"
        /\ FromUtf8(Canonical.bytes).tag = "Err"

\* ------------------------------------------------------------------------
\* C9  A clone of the input for every extraction
\* ------------------------------------------------------------------------

\* C9: every extractor receives a copy equal to the canonical input value
\* of the invocation, the value behind the copies stays that value however
\* many extractors have consumed theirs, and parameters of the same type
\* are handed to the body as equal values.
ClonePerExtraction ==
    LET canonical == Canonical
    IN  \A id \in Invoked :
            LET log == LogOf(id)
                params == ParamsOf(id)
            IN  /\ futures[id].input = canonical
                /\ \A p \in DOMAIN log :
                       /\ log[p].op = "extract" => log[p].topic = canonical
                       /\ log[p].op = "call" =>
                              \A type \in ParamTypes :
                                  Cardinality({log[p].args[i] :
                                      i \in {j \in DOMAIN params : params[j] = type}}) <= 1

\* The body of a handler of three Topic parameters has been called with
\* three Topics of the input "w".
ClonePerExtractionWitness ==
    \E id \in Invoked :
        \E p \in Events(id, "call") :
            /\ Cardinality({i \in DOMAIN ParamsOf(id) : ParamsOf(id)[i] = "Topic"}) = 3
            /\ Canonical.bytes = <<119>>
            /\ \A i \in DOMAIN ParamsOf(id) :
                   ParamsOf(id)[i] = "Topic" =>
                       LogOf(id)[p].args[i].string = Str(<<119>>)

\* ------------------------------------------------------------------------
\* C10  Determinism
\* ------------------------------------------------------------------------

DeterminismErrWitness ==
    \E i, j \in Returned :
        /\ i # j
        /\ futures[i].result.tag = "Err"
        /\ futures[j].result.tag = "Err"

InputCoercion ==
    /\ \A id \in Invoked :
           LET f == futures[id]
               converted == IntoFrame(f.raw)
           IN  /\ f.input = converted
               /\ \A p \in DOMAIN f.log :
                      f.log[p].op = "extract" => f.log[p].topic = converted
    /\ \A i, j \in Returned :
           (/\ futures[j].raw = [kind |-> "Frame", frame |-> IntoFrame(futures[i].raw)]
            /\ futures[j].state = futures[i].state)
               => futures[j].result = futures[i].result

\* An invocation on the String "world" and one on the Frame of "world" have
\* both returned Ok, of a handler that extracts a Topic.
InputCoercionWitness ==
    \E i, j \in Returned :
        /\ futures[i].raw.kind = "String"
        /\ futures[j].raw = [kind |-> "Frame", frame |-> IntoFrame(futures[i].raw)]
        /\ futures[j].state = futures[i].state
        /\ futures[i].result.tag = "Ok"
        /\ \E k \in DOMAIN handler.params : handler.params[k] = "Topic"

\* ------------------------------------------------------------------------
\* C12  The State extractor
\* ------------------------------------------------------------------------

\* C12: the State extractor never fails, whatever the input is, and yields
\* the state passed to invoke; the body of a handler is called with the
\* Topic decoded from the input at its Topic parameters and with that state
\* at its State parameters.
StatePassthrough ==
    \A id \in Invoked :
        LET f == futures[id]
            log == f.log
            params == f.handler.params
        IN  /\ \A p \in DOMAIN log :
                   (log[p].op = "extract" /\ params[log[p].param] = "State") =>
                       /\ log[p].ok
                       /\ f.args[log[p].param] = [type |-> "State", state |-> context]
            /\ \A p \in DOMAIN log :
                   log[p].op = "call" =>
                       \A i \in DOMAIN params :
                           log[p].args[i] =
                               IF params[i] = "State"
                               THEN [type |-> "State", state |-> context]
                               ELSE [type |-> "Topic", string |-> Str(Canonical.bytes)]

\* A State parameter has been extracted from an input that is not UTF-8.
StatePassthroughWitness ==
    \E id \in Invoked :
        /\ FromUtf8(Canonical.bytes).tag = "Err"
        /\ Len(futures[id].args) >= 1
        /\ ParamsOf(id)[1] = "State"

\* The body of a handler of a Topic and a State parameter has been called.
StatePassthroughCallWitness ==
    \E id \in Invoked :
        /\ ParamsOf(id) = <<"Topic", "State">>
        /\ Events(id, "call") # {}
        /\ Canonical.bytes = <<119>>

\* ------------------------------------------------------------------------
\* C13  The context is never mutated
\* ------------------------------------------------------------------------

\* C13: no step changes the state the caller passed to invoke, and after
\* every step the state of every invocation, and the context every
\* extractor of it was given, is that state.
ContextNeverMutated ==
    [][/\ context' = context
       /\ \A id \in Invocations :
              futures'[id].pc # "none" =>
                  /\ futures'[id].state = context
                  /\ \A p \in DOMAIN futures'[id].log :
                         futures'[id].log[p].op = "extract" =>
                             futures'[id].log[p].context = context]_vars

\* An invocation has returned Err after a State parameter was extracted,
\* and another has returned before it.
ContextNeverMutatedWitness ==
    \E id \in Returned :
        /\ id > 1
        /\ futures[id].result.tag = "Err"
        /\ ParamsOf(id)[1] = "State"
        /\ futures[id].state = context

\* ------------------------------------------------------------------------
\* C14  Concurrent invocations
\* ------------------------------------------------------------------------

\* What one invocation of handler h on the converted input and the state
\* returns when it runs alone: the error of the first parameter that fails
\* to extract, boxed, or the converted output of the body called with all
\* the extracted parameters.
Outcome(h, input, state) ==
    LET n == Len(h.params)
        failing == {i \in 1..n : Extract(h.params[i], input, state).tag = "Err"}
    IN  IF failing # {}
        THEN Err(BoxError(Extract(h.params[Least(failing)], input, state).err))
        ELSE Ok(OutputInto(Body(h.body,
                 [i \in 1..n |-> Extract(h.params[i], input, state).val])))

\* C14: however the steps of the invocations in flight interleave, every
\* invocation that returns returns what it returns alone on its own input
\* and state, its extractors are handed its own input and state, in the
\* declared order, and nothing follows a failed extraction.
ConcurrentIndependence ==
    \A id \in Invoked :
        LET f == futures[id]
            log == f.log
            own == IntoFrame(f.raw)
        IN  /\ f.pc = "done" => f.result = Outcome(f.handler, own, f.state)
            /\ \A p \in DOMAIN log :
                   log[p].op = "extract" =>
                       /\ log[p].param = p
                       /\ log[p].topic = own
                       /\ log[p].context = f.state
                       /\ ~log[p].ok => p = Len(log)

\* The first invocation is suspended in its body while the second, created
\* after it on another input and state, has already returned Err.
ConcurrentIndependenceWitness ==
    /\ futures[1].pc = "suspended"
    /\ futures[2].pc = "done"
    /\ futures[2].result.tag = "Err"
    /\ futures[1].raw # futures[2].raw
    /\ Len(handler.params) >= 2

\* ------------------------------------------------------------------------
\* C15  The handler is reusable
\* ------------------------------------------------------------------------

\* C15: no step changes the caller's handler; every invocation runs on a
\* copy equal to it, and returns what a first invocation on its input and
\* state returns, whatever the invocations before it returned.
HandlerReusable ==
    /\ [][handler' = handler]_vars
    /\ [](\A id \in Invoked :
              LET f == futures[id]
              IN  /\ f.handler = handler
                  /\ f.pc = "done" =>
                         f.result = Outcome(handler, IntoFrame(f.raw), f.state))

\* An invocation has returned Ok after an earlier invocation of the same
\* handler returned Err.
HandlerReusableWitness ==
    \E i, j \in Returned :
        /\ i < j
        /\ futures[i].result.tag = "Err"
        /\ futures[j].result.tag = "Ok"

\* ------------------------------------------------------------------------
\* C16  The single-Topic greeting
\* ------------------------------------------------------------------------

\* "Hello, "
Hello == <<72, 101, 108, 108, 111, 44, 32>>

\* C16: an invocation of the handler of one Topic that formats
\* "Hello, {topic}!" on an input that is valid UTF-8 returns Ok of the bytes
\* of "Hello, ", the input and "!", directly and through the generic
\* wrappers.
HelloTopic ==
    \A id \in Returned :
        LET f == futures[id]
            s == IntoFrame(f.raw).bytes
            expected == Ok(Frame(Hello \o s \o <<33>>))
        IN  (/\ f.handler = [params |-> <<"Topic">>, body |-> "greet"]
             /\ FromUtf8(s).tag = "Ok")
                => /\ f.result = expected
                   /\ HandleTheHandler(f.result) = expected

\* The invocation on "world" has returned Ok of the bytes of "Hello, world!".
HelloTopicWitness ==
    \E id \in Returned :
        /\ futures[id].handler = [params |-> <<"Topic">>, body |-> "greet"]
        /\ IntoFrame(futures[id].raw).bytes = World
        /\ futures[id].result =
               Ok(Frame(<<72, 101, 108, 108, 111, 44, 32,
                          119, 111, 114, 108, 100, 33>>))

\* ------------------------------------------------------------------------
\* C17  The only suspension point
\* ------------------------------------------------------------------------

\* C17: every extraction and the call of the body happen in the first poll
\* of the invocation; a poll returns Pending only after the body has been
\* called and before it has completed; an invocation whose extraction
\* failed has returned in its first poll.
SuspendOnlyInBody ==
    \A id \in Invoked :
        LET f == futures[id]
            log == f.log
            n == Len(log)
        IN  /\ f.pc = "extracting" => f.polls = 1
            /\ (n > 0 /\ log[n].op \in {"extract", "call"}) => f.polls = 1
            /\ \A p \in DOMAIN log :
                   log[p].op = "pending" =>
                       /\ \E q \in 1..(p - 1) : log[q].op = "call"
                       /\ \A q \in 1..(p - 1) : log[q].op # "complete"
            /\ (\E p \in DOMAIN log : log[p].op = "extract" /\ ~log[p].ok) =>
                   /\ f.pc = "done"
                   /\ f.polls = 1
                   /\ \A p \in DOMAIN log : log[p].op = "extract"

\* An invocation of two parameters is suspended: its first poll extracted
\* both, called the body and returned Pending.
SuspendOnlyInBodyWitness ==
    \E id \in Invoked :
        /\ futures[id].pc = "suspended"
        /\ futures[id].polls = 1
        /\ Len(futures[id].args) = 2
        /\ Events(id, "call") # {}

\* ------------------------------------------------------------------------
\* C18  Cancellation
\* ------------------------------------------------------------------------

\* C18: a dropped invocation takes no step any more, and it has no result,
\* no completed body and no converted output.
CancelledStaysCancelled ==
    /\ [][\A id \in Invocations :
              futures[id].pc = "dropped" => futures'[id] = futures[id]]_vars
    /\ [](\A id \in Invocations :
              futures[id].pc = "dropped" =>
                  /\ futures[id].result = Pending
                  /\ futures[id].output = NoOutput
                  /\ \A p \in DOMAIN futures[id].log :
                         futures[id].log[p].op \notin {"complete", "convert"})

\* An invocation was dropped while its body was suspended, and another
\* invocation has returned since.
CancelledStaysCancelledWitness ==
    \E id \in Invoked :
        /\ futures[id].pc = "dropped"
        /\ Events(id, "call") # {}
        /\ \E other \in Returned : other > id

\* ------------------------------------------------------------------------
\* C19  Laziness
\* ------------------------------------------------------------------------

\* C19: an invocation that has not been polled holds the copy of the
\* handler and the converted input and nothing else: no parameter is
\* extracted, the body is not called, there is no result; this stays so
\* when it is dropped without a poll.
LazyInvocation ==
    \A id \in Invoked :
        LET f == futures[id]
        IN  /\ f.pc = "created" => f.polls = 0
            /\ f.polls = 0 =>
                   /\ f.pc \in {"created", "dropped"}
                   /\ f.handler = handler
                   /\ f.input = IntoFrame(f.raw)
                   /\ f.log = <<>>
                   /\ f.args = <<>>
                   /\ f.output = NoOutput
                   /\ f.result = Pending

\* An invocation of a handler with parameters was dropped without a poll.
LazyInvocationWitness ==
    \E id \in Invoked :
        /\ futures[id].pc = "dropped"
        /\ futures[id].polls = 0
        /\ Len(futures[id].handler.params) >= 1

\* ------------------------------------------------------------------------
\* C20  Termination
\* ------------------------------------------------------------------------

\* C20: from some point on every invocation that was created has returned
\* a result or was dropped; one that has returned takes no step any more; a result is there exactly when the
\* invocation has returned; an invocation whose extraction failed has
\* returned Err without its body being called or awaited.
Termination ==
    /\ <>[](\A id \in Invocations :
                \/ futures[id].pc \in {"none", "dropped"}
                \/ futures[id].pc = "done" /\ futures[id].result # Pending)
    /\ [][\A id \in Invocations :
              futures[id].pc = "done" => futures'[id] = futures[id]]_vars
    /\ [](\A id \in Invoked :
              /\ (futures[id].pc = "done") <=> (futures[id].result # Pending)
              /\ Rejections(id) # {} =>
                     /\ futures[id].pc = "done"
                     /\ futures[id].result.tag = "Err"
                     /\ Events(id, "call") = {}
                     /\ Events(id, "pending") = {})

\* An invocation has returned Ok in its second poll, after its body was
\* suspended once.
TerminationWitness ==
    \E id \in Returned :
        /\ futures[id].polls = 2
        /\ futures[id].result.tag = "Ok"
        /\ Events(id, "pending") # {}

====
